---- MODULE Spec2Model ----
(***************************************************************************)
(* Split-expense: the split strategies, the balance-delta calculator, the  *)
(* transactional ledger writer and the balance reader.                     *)
(*                                                                         *)
(* Money.  The program computes with float64 and rounds with               *)
(* RoundToTwoDecimalPlaces.  Here a monetary value is an integer number of *)
(* mills (1/1000 of the currency unit), so that values below one cent      *)
(* exist and rounding to two decimals is a real operation; a value that    *)
(* went through the rounding is a multiple of 10 mills.  Quotients are     *)
(* kept exact (numerator, denominator) until they are rounded.  Binary     *)
(* floating-point representation error is not modelled.                    *)
(* Percentages are integers in hundredths of a percent (100% = 10000).     *)
(***************************************************************************)
EXTENDS Integers, Sequences, FiniteSets, TLC

VARIABLES
    req,            \* SplitSpec: the CreateExpenseRequest handed to a strategy
    out,            \* SplitSpec: what the strategy returned
    expenses,       \* committed rows of table expenses
    expense_splits, \* committed rows of table expense_splits
    balances,       \* committed rows of table balances
    nextId,         \* AUTO_INCREMENT counter of table expenses
    tx,             \* per caller: the CreateExpense call in progress
    result,         \* what the CreateExpense call that returned in the last step returned (None after any other step)
    response        \* what the read done in the last step returned (None after any other step)

vars == <<req, out, expenses, expense_splits, balances, nextId, tx, result, response>>

ledgerVars == <<expenses, expense_splits, balances, nextId, tx, result, response>>

(***************************************************************************)
(* Generic helpers                                                         *)
(***************************************************************************)
RECURSIVE SumSeq(_)
SumSeq(s) == IF s = <<>> THEN 0 ELSE Head(s) + SumSeq(Tail(s))

Abs(x) == IF x < 0 THEN -x ELSE x

\* math.Round on the quotient a/b (b > 0): nearest integer, halves away from zero
MathRoundMutFloor(a, b) == IF a >= 0 THEN a \div b ELSE -((-a) \div b)

MathRound(a, b) ==
    LET m == Abs(a)
        q == (m \div b) + (IF 2 * (m % b) >= b THEN 1 ELSE 0)
    IN  IF a >= 0 THEN q ELSE -q

\* util.RoundToTwoDecimalPlaces(f) for f = num/den mills: math.Round(f*100)/100.
\* One cent is 10 mills, so f*100 is num/(10*den) cents.
RoundToTwoDecimalPlaces(num, den) == 10 * MathRound(num, 10 * den)

(***************************************************************************)
(* Split strategies (pure functions of the request)                        *)
(***************************************************************************)
NoError == "" 

Ok(splits) == [splits |-> splits, err |-> NoError]

Failed(msg) == [splits |-> <<>>, err |-> msg]

SumOwed(splits) == SumSeq([i \in 1..Len(splits) |-> splits[i].AmountOwed])

SumPaid(splits) == SumSeq([i \in 1..Len(splits) |-> splits[i].AmountPaid])

\* equalSplitStrategy.CalculateSplits
equalSplitOwedMutLast(total, n, i) ==
    LET amountPerUser == RoundToTwoDecimalPlaces(total, n)
    IN  IF i = n
        THEN RoundToTwoDecimalPlaces(total - amountPerUser * (n - 1), 1)
        ELSE amountPerUser

equalSplitOwed(total, n, i) ==
    LET amountPerUser == RoundToTwoDecimalPlaces(total, n)
    IN  IF i = 1
        THEN RoundToTwoDecimalPlaces(total - amountPerUser * (n - 1), 1)
        ELSE amountPerUser

equalSplitStrategy(r) ==
    LET n == Len(r.EqualSplits)
        splits == [i \in 1..n |->
                     [UserID     |-> r.EqualSplits[i].UserID,
                      AmountPaid |-> RoundToTwoDecimalPlaces(r.EqualSplits[i].AmountPaid, 1),
                      AmountOwed |-> equalSplitOwed(r.TotalAmount, n, i)]]
        currentTotalOwed == SumOwed(splits)
    IN  IF n = 0
        THEN Failed("equal split requires participants")
        ELSE IF RoundToTwoDecimalPlaces(currentTotalOwed, 1)
                  # RoundToTwoDecimalPlaces(r.TotalAmount, 1)
        THEN Failed("rounding error: sum of equal split amounts does not match total amount")
        ELSE Ok(splits)

\* percentageSplitStrategy.CalculateSplits
percentageOwed(total, percentage) ==
    \* total * (percentage / 100): percentage is in hundredths of a percent
    RoundToTwoDecimalPlaces(total * percentage, 10000)

percentageAdjustMutLast(splits, diff) ==
    [splits EXCEPT ![Len(splits)].AmountOwed = RoundToTwoDecimalPlaces(@ + diff, 1)]

percentageAdjust(splits, diff) ==
    IF diff # 0 /\ Len(splits) > 0
    THEN [splits EXCEPT ![1].AmountOwed = RoundToTwoDecimalPlaces(@ + diff, 1)]
    ELSE splits

percentageSplitStrategyMutTolerance(r) ==
    LET n == Len(r.PercentageSplits)
        totalPercentage == SumSeq([i \in 1..n |-> r.PercentageSplits[i].Percentage])
        splits == [i \in 1..n |->
                     [UserID     |-> r.PercentageSplits[i].UserID,
                      AmountPaid |-> RoundToTwoDecimalPlaces(r.PercentageSplits[i].AmountPaid, 1),
                      AmountOwed |-> percentageOwed(r.TotalAmount, r.PercentageSplits[i].Percentage)]]
        currentTotalOwed == SumOwed(splits)
        diff == RoundToTwoDecimalPlaces(r.TotalAmount - currentTotalOwed, 1)
    IN  IF n = 0
        THEN Failed("percentage split requires percentages")
        ELSE IF Abs(totalPercentage - 10000) > 1
        THEN Failed("percentage split total must be 100%")
        ELSE Ok(percentageAdjust(splits, diff))

percentageSplitStrategy(r) ==
    LET n == Len(r.PercentageSplits)
        totalPercentage == SumSeq([i \in 1..n |-> r.PercentageSplits[i].Percentage])
        splits == [i \in 1..n |->
                     [UserID     |-> r.PercentageSplits[i].UserID,
                      AmountPaid |-> RoundToTwoDecimalPlaces(r.PercentageSplits[i].AmountPaid, 1),
                      AmountOwed |-> percentageOwed(r.TotalAmount, r.PercentageSplits[i].Percentage)]]
        currentTotalOwed == SumOwed(splits)
        diff == RoundToTwoDecimalPlaces(r.TotalAmount - currentTotalOwed, 1)
    IN  IF n = 0
        THEN Failed("percentage split requires percentages")
        ELSE IF totalPercentage # 10000
        THEN Failed("percentage split total must be 100%")
        ELSE Ok(percentageAdjust(splits, diff))

\* a failure whose message is formatted from values (the %.2f arguments)
FailedWith(msg, args) == [splits |-> <<>>, err |-> msg, args |-> args]

\* manualSplitStrategy.CalculateSplits
manualSplitStrategyMutUnrounded(r) ==
    LET n == Len(r.ManualSplits)
        splits == [i \in 1..n |->
                     [UserID     |-> r.ManualSplits[i].UserID,
                      AmountPaid |-> RoundToTwoDecimalPlaces(r.ManualSplits[i].AmountPaid, 1),
                      AmountOwed |-> RoundToTwoDecimalPlaces(r.ManualSplits[i].AmountOwed, 1)]]
        totalOwed == SumOwed(r.ManualSplits)
    IN  IF n = 0
        THEN Failed("manual split requires manual amounts")
        ELSE IF RoundToTwoDecimalPlaces(totalOwed, 1)
                  # RoundToTwoDecimalPlaces(r.TotalAmount, 1)
        THEN FailedWith("manual split amounts (%.2f) must sum up to total amount (%.2f)",
                        <<totalOwed, r.TotalAmount>>)
        ELSE Ok(splits)

manualSplitStrategyMutNoEmptyCheck(r) ==
    LET n == Len(r.ManualSplits)
        splits == [i \in 1..n |->
                     [UserID     |-> r.ManualSplits[i].UserID,
                      AmountPaid |-> RoundToTwoDecimalPlaces(r.ManualSplits[i].AmountPaid, 1),
                      AmountOwed |-> RoundToTwoDecimalPlaces(r.ManualSplits[i].AmountOwed, 1)]]
        totalOwed == SumOwed(splits)
    IN  IF RoundToTwoDecimalPlaces(totalOwed, 1)
             # RoundToTwoDecimalPlaces(r.TotalAmount, 1)
        THEN FailedWith("manual split amounts (%.2f) must sum up to total amount (%.2f)",
                        <<totalOwed, r.TotalAmount>>)
        ELSE Ok(splits)

manualSplitStrategy(r) ==
    LET n == Len(r.ManualSplits)
        splits == [i \in 1..n |->
                     [UserID     |-> r.ManualSplits[i].UserID,
                      AmountPaid |-> RoundToTwoDecimalPlaces(r.ManualSplits[i].AmountPaid, 1),
                      AmountOwed |-> RoundToTwoDecimalPlaces(r.ManualSplits[i].AmountOwed, 1)]]
        totalOwed == SumOwed(splits)
    IN  IF n = 0
        THEN Failed("manual split requires manual amounts")
        ELSE IF RoundToTwoDecimalPlaces(totalOwed, 1)
                  # RoundToTwoDecimalPlaces(r.TotalAmount, 1)
        THEN FailedWith("manual split amounts (%.2f) must sum up to total amount (%.2f)",
                        <<totalOwed, r.TotalAmount>>)
        ELSE Ok(splits)

SplitMethodEqual == "equal"

SplitMethodPercentage == "percentage"

SplitMethodManual == "manual"

\* getSplitStrategy + expenseService.calculateExpenseSplits
calculateExpenseSplitsMutDefaultEqual(r) ==
    CASE r.SplitMethod = SplitMethodEqual      -> equalSplitStrategy(r)
      [] r.SplitMethod = SplitMethodPercentage -> percentageSplitStrategy(r)
      [] r.SplitMethod = SplitMethodManual     -> manualSplitStrategy(r)
      [] OTHER -> equalSplitStrategy(r)

calculateExpenseSplits(r) ==
    CASE r.SplitMethod = SplitMethodEqual      -> equalSplitStrategy(r)
      [] r.SplitMethod = SplitMethodPercentage -> percentageSplitStrategy(r)
      [] r.SplitMethod = SplitMethodManual     -> manualSplitStrategy(r)
      [] OTHER -> Failed("invalid split method")


(***************************************************************************)
(* SplitSpec: a strategy applied to one request drawn from bounded sets    *)
(***************************************************************************)
MaxParticipants == 3

MaxTotalMills == 40

\* participants of an equal split (a fourth participant costs no choice of a
\* percentage or an amount)
MaxEqualParticipants == 4

None == [none |-> TRUE]

\* total_amount values: every value up to MaxTotalMills mills (sub-cent values
\* included) and the amounts of the documented examples
Totals == (0..MaxTotalMills) \cup {100, 105, 125, 10000, 20000, 100000}

\* per-participant percentages, in hundredths of a percent
Percentages == {-2000, 0, 2000, 3000, 3333, 3334, 5000, 10000, 12000}

\* per-participant manual amount_owed inputs, in mills
ManualOwed == {0, 4, 5, 15, 30, 30000, 40000, 60000}

\* who takes part, and what each paid: three patterns
\*   1: users 1,2,3,.. in order, the first pays the whole total
\*   2: users in descending order, everyone pays a sub-cent amount
\*   3: the same user in every position, the last pays the whole total
PatternUser(k, n, i) == CASE k = 1 -> i [] k = 2 -> n + 1 - i [] OTHER -> 1

PatternPaid(k, n, i, total) ==
    CASE k = 1 -> IF i = 1 THEN total ELSE 0
      [] k = 2 -> 10 * i + 5
      [] OTHER -> IF i = n THEN total ELSE 0

EmailOf(id) == <<"a", "b", "c", "d", "e">>[id]

BaseRequest(method, total) ==
    [TotalAmount |-> total, CreatedByEmail |-> "a", CreatedByID |-> 1,
     SplitMethod |-> method,
     EqualSplits |-> <<>>, PercentageSplits |-> <<>>, ManualSplits |-> <<>>]

EqualRequest(total, n, k) ==
    [BaseRequest(SplitMethodEqual, total) EXCEPT !.EqualSplits =
        [i \in 1..n |-> [UserEmail  |-> EmailOf(PatternUser(k, n, i)),
                         UserID     |-> PatternUser(k, n, i),
                         AmountPaid |-> PatternPaid(k, n, i, total)]]]

PercentageRequest(total, n, k, pcts) ==
    [BaseRequest(SplitMethodPercentage, total) EXCEPT !.PercentageSplits =
        [i \in 1..n |-> [UserEmail  |-> EmailOf(PatternUser(k, n, i)),
                         UserID     |-> PatternUser(k, n, i),
                         Percentage |-> pcts[i],
                         AmountPaid |-> PatternPaid(k, n, i, total)]]]

ManualRequest(total, n, k, owed) ==
    [BaseRequest(SplitMethodManual, total) EXCEPT !.ManualSplits =
        [i \in 1..n |-> [UserEmail  |-> EmailOf(PatternUser(k, n, i)),
                         UserID     |-> PatternUser(k, n, i),
                         AmountOwed |-> owed[i],
                         AmountPaid |-> PatternPaid(k, n, i, total)]]]

Callers == {"c1", "c2"}

IdleTx == [pc |-> "idle", expense |-> None, splits |-> <<>>, balanceUpdates |-> <<>>,
           i |-> 0, wExpenses |-> {}, wSplits |-> {}, wBalances |-> {}]

LedgerIdle ==
    /\ expenses = {}
    /\ expense_splits = {}
    /\ balances = {}
    /\ nextId = 1
    /\ tx = [p \in Callers |-> IdleTx]
    /\ result = None
    /\ response = None

SplitInit ==
    /\ \E total \in Totals, n \in 0..MaxParticipants, k \in 1..3 :
          \/ \E m \in 0..MaxEqualParticipants : req = EqualRequest(total, m, k)
          \/ \E pcts \in [1..n -> Percentages] : req = PercentageRequest(total, n, k, pcts)
          \/ \E owed \in [1..n -> ManualOwed] : req = ManualRequest(total, n, k, owed)
    /\ out = None
    /\ LedgerIdle

CalculateSplitsEqual ==
    /\ out = None
    /\ req.SplitMethod = SplitMethodEqual
    /\ out' = calculateExpenseSplits(req)
    /\ UNCHANGED <<req, ledgerVars>>

CalculateSplitsPercentage ==
    /\ out = None
    /\ req.SplitMethod = SplitMethodPercentage
    /\ out' = calculateExpenseSplits(req)
    /\ UNCHANGED <<req, ledgerVars>>

CalculateSplitsManual ==
    /\ out = None
    /\ req.SplitMethod = SplitMethodManual
    /\ out' = calculateExpenseSplits(req)
    /\ UNCHANGED <<req, ledgerVars>>

SplitNext == CalculateSplitsEqual \/ CalculateSplitsPercentage \/ CalculateSplitsManual

SplitSpec == SplitInit /\ [][SplitNext]_vars

Succeeded == out # None /\ out.err = NoError

\* C1: whenever a split strategy returns successfully, the amount_owed of the
\* returned splits sum to round2(total_amount).
C1_Conservation ==
    Succeeded => SumOwed(out.splits) = RoundToTwoDecimalPlaces(req.TotalAmount, 1)

RoundDownToTwoDecimalPlaces(num, den) == 10 * (num \div (10 * den))

C10_EqualSplitRoundsDown ==
    (Succeeded /\ req.SplitMethod = SplitMethodEqual /\ req.TotalAmount > 0) =>
        LET n == Len(req.EqualSplits)
            share == RoundDownToTwoDecimalPlaces(req.TotalAmount, n)
        IN  /\ \A i \in 2..n : out.splits[i].AmountOwed = share
            /\ out.splits[1].AmountOwed =
                   RoundToTwoDecimalPlaces(req.TotalAmount, 1) - share * (n - 1)

\* a percentage split of 10.00 in which the first participant absorbed a residual
C1_ResidualAbsorbed ==
    /\ Succeeded
    /\ req.SplitMethod = SplitMethodPercentage
    /\ Len(out.splits) = 3
    /\ req.TotalAmount = 10000
    /\ \A i \in 1..3 : req.PercentageSplits[i].Percentage \in {3333, 3334}
    /\ out.splits[1].AmountOwed # percentageOwed(10000, req.PercentageSplits[1].Percentage)

(***************************************************************************)
(* Service layer: email resolution, balance deltas, validation             *)
(***************************************************************************)
\* table users: id and (unique) email
Users == { [ID |-> 1, Email |-> "a"], [ID |-> 2, Email |-> "b"], [ID |-> 3, Email |-> "c"] }

UserIDs == { u.ID : u \in Users }

KnownEmail(email) == \E u \in Users : u.Email = email

IDOfEmail(email) == (CHOOSE u \in Users : u.Email = email).ID

\* the split list the request's method selects (the other two are ignored)
MethodSplits(r) ==
    CASE r.SplitMethod = SplitMethodEqual      -> r.EqualSplits
      [] r.SplitMethod = SplitMethodPercentage -> r.PercentageSplits
      [] r.SplitMethod = SplitMethodManual     -> r.ManualSplits
      [] OTHER -> <<>>

ResolveSplits(splits) ==
    [i \in 1..Len(splits) |-> [splits[i] EXCEPT !.UserID = IDOfEmail(splits[i].UserEmail)]]

\* expenseService.resolveUserEmailsToIDs: [err, req]
resolveUserEmailsToIDs(r) ==
    LET emails == {r.CreatedByEmail} \cup
                  { MethodSplits(r)[i].UserEmail : i \in 1..Len(MethodSplits(r)) }
    IN  IF \E e \in emails : ~KnownEmail(e)
        THEN [err |-> "failed to fetch users for expense", req |-> r]
        ELSE [err |-> NoError,
              req |-> [r EXCEPT !.CreatedByID = IDOfEmail(r.CreatedByEmail),
                                !.EqualSplits =
                                    IF r.SplitMethod = SplitMethodEqual
                                    THEN ResolveSplits(@) ELSE @,
                                !.PercentageSplits =
                                    IF r.SplitMethod = SplitMethodPercentage
                                    THEN ResolveSplits(@) ELSE @,
                                !.ManualSplits =
                                    IF r.SplitMethod = SplitMethodManual
                                    THEN ResolveSplits(@) ELSE @]]

\* expenseService.calculateBalanceUpdates
netAmountOwedToCreatorMutPaidMinusOwed(split) == split.AmountPaid - split.AmountOwed

netAmountOwedToCreator(split) == split.AmountOwed - split.AmountPaid

EmitsUpdateMutPositiveOnly(createdBy, split) ==
    createdBy # split.UserID /\ split.AmountOwed - split.AmountPaid > 0

EmitsUpdateMutCreatorToo(createdBy, split) == netAmountOwedToCreator(split) # 0

EmitsUpdate(createdBy, split) ==
    createdBy # split.UserID /\ netAmountOwedToCreator(split) # 0

RECURSIVE KeptSplits(_, _)
KeptSplits(createdBy, splits) ==
    IF splits = <<>> THEN <<>>
    ELSE IF EmitsUpdate(createdBy, Head(splits))
         THEN <<Head(splits)>> \o KeptSplits(createdBy, Tail(splits))
         ELSE KeptSplits(createdBy, Tail(splits))

calculateBalanceUpdates(createdBy, splits) ==
    LET kept == KeptSplits(createdBy, splits)
    IN  [i \in 1..Len(kept) |->
            [User1ID |-> createdBy,
             User2ID |-> kept[i].UserID,
             Amount  |-> netAmountOwedToCreator(kept[i])]]

\* expenseService.CreateExpense up to the call of the repository:
\* [err, expense, splits, balanceUpdates]
Rejected(msg) == [err |-> msg, expense |-> None, splits |-> <<>>, balanceUpdates |-> <<>>]

PrepareExpenseMutNoPaidCheck(r) ==
    LET resolved == resolveUserEmailsToIDs(r)
        rr == resolved.req
        expense == [ID |-> 0, TotalAmount |-> rr.TotalAmount, CreatedBy |-> rr.CreatedByID]
        calc == calculateExpenseSplits(rr)
    IN  IF resolved.err # NoError THEN Rejected(resolved.err)
        ELSE IF calc.err # NoError THEN Rejected(calc.err)
        ELSE [err |-> NoError, expense |-> expense, splits |-> calc.splits,
              balanceUpdates |-> calculateBalanceUpdates(expense.CreatedBy, calc.splits)]

PrepareExpense(r) ==
    LET resolved == resolveUserEmailsToIDs(r)
        rr == resolved.req
        expense == [ID |-> 0, TotalAmount |-> rr.TotalAmount, CreatedBy |-> rr.CreatedByID]
        calc == calculateExpenseSplits(rr)
    IN  IF resolved.err # NoError THEN Rejected(resolved.err)
        ELSE IF calc.err # NoError THEN Rejected(calc.err)
        ELSE IF RoundToTwoDecimalPlaces(SumPaid(calc.splits), 1)
                  # RoundToTwoDecimalPlaces(rr.TotalAmount, 1)
        THEN Rejected("total amount paid across all splits does not match total expense amount")
        ELSE [err |-> NoError, expense |-> expense, splits |-> calc.splits,
              balanceUpdates |-> calculateBalanceUpdates(expense.CreatedBy, calc.splits)]

validateCreateExpenseRequestMutNoCreatorCheck(r) ==
    LET splits == MethodSplits(r)
        emails == { splits[i].UserEmail : i \in 1..Len(splits) }
    IN  IF r.TotalAmount <= 0 \/ r.CreatedByEmail = "" \/ r.SplitMethod = ""
        THEN "description, total_amount, created_by, and split_method are required"
        ELSE IF r.SplitMethod \notin {SplitMethodEqual, SplitMethodPercentage, SplitMethodManual}
        THEN "unsupported split method"
        ELSE IF Len(splits) = 0
        THEN "split requires participants"
        ELSE IF Cardinality(emails) # Len(splits)
        THEN "duplicate email found in splits"
        ELSE IF /\ r.SplitMethod = SplitMethodPercentage
                /\ SumSeq([i \in 1..Len(splits) |-> splits[i].Percentage]) # 10000
        THEN "total percentage across all splits must be 100%"
        ELSE IF r.SplitMethod = SplitMethodManual /\ SumOwed(splits) # r.TotalAmount
        THEN "total amount owed across all splits does not match total expense amount"
        ELSE NoError

\* ExpenseHandler.validateCreateExpenseRequest (the description is taken to be
\* non-empty; percentages are hundredths of a percent)
validateCreateExpenseRequest(r) ==
    LET splits == MethodSplits(r)
        emails == { splits[i].UserEmail : i \in 1..Len(splits) }
    IN  IF r.TotalAmount <= 0 \/ r.CreatedByEmail = "" \/ r.SplitMethod = ""
        THEN "description, total_amount, created_by, and split_method are required"
        ELSE IF r.SplitMethod \notin {SplitMethodEqual, SplitMethodPercentage, SplitMethodManual}
        THEN "unsupported split method"
        ELSE IF Len(splits) = 0
        THEN "split requires participants"
        ELSE IF Cardinality(emails) # Len(splits)
        THEN "duplicate email found in splits"
        ELSE IF /\ r.SplitMethod = SplitMethodPercentage
                /\ SumSeq([i \in 1..Len(splits) |-> splits[i].Percentage]) # 10000
        THEN "total percentage across all splits must be 100%"
        ELSE IF r.SplitMethod = SplitMethodManual /\ SumOwed(splits) # r.TotalAmount
        THEN "total amount owed across all splits does not match total expense amount"
        ELSE IF r.CreatedByEmail \notin emails
        THEN "created_by user must be included in the split participants"
        ELSE NoError

\* ExpenseHandler.CreateExpenseHandler up to the call of the repository: the
\* error the request is answered with, if any
CreateExpenseError(r) ==
    IF validateCreateExpenseRequest(r) # NoError
    THEN validateCreateExpenseRequest(r)
    ELSE PrepareExpense(r).err

(***************************************************************************)
(* Properties of the strategies as the service uses them (SplitSpec)       *)
(***************************************************************************)
Applied == out # None

\* the emails of the request all belong to users
Resolves(r) == resolveUserEmailsToIDs(r).err = NoError

SumPercentage(r) ==
    SumSeq([i \in 1..Len(r.PercentageSplits) |-> r.PercentageSplits[i].Percentage])

\* C11: percentage residual policy.  Every participant's owed is first
\* round2(total * percentage / 100); the residual round2(total) - sum(owed) is
\* added to the first participant, and every other participant keeps the
\* rounded share.
C11_PercentageResidual ==
    (Succeeded /\ req.SplitMethod = SplitMethodPercentage) =>
        LET n == Len(req.PercentageSplits)
            share == [i \in 1..n |->
                        RoundToTwoDecimalPlaces(
                            req.TotalAmount * req.PercentageSplits[i].Percentage, 10000)]
            residual == RoundToTwoDecimalPlaces(req.TotalAmount, 1) - SumSeq(share)
        IN  /\ out.splits[1].AmountOwed = share[1] + residual
            /\ \A i \in 2..n : out.splits[i].AmountOwed = share[i]

\* C12: a percentage split needs percentages that sum to exactly 100.  With
\* participants whose percentages sum to anything else the strategy returns
\* "percentage split total must be 100%" and no splits, CreateExpense returns
\* the same error and the repository is not called; with a sum of 100 the
\* strategy succeeds.
C12_PercentageSum ==
    (Applied /\ req.SplitMethod = SplitMethodPercentage /\ Len(req.PercentageSplits) > 0) =>
        IF SumPercentage(req) = 10000
        THEN out.err = NoError /\ Len(out.splits) = Len(req.PercentageSplits)
        ELSE /\ out.err = "percentage split total must be 100%"
             /\ out.splits = <<>>
             /\ Resolves(req) =>
                   /\ PrepareExpense(req).err = "percentage split total must be 100%"
                   /\ PrepareExpense(req).splits = <<>>
                   /\ PrepareExpense(req).balanceUpdates = <<>>
             /\ CreateExpenseError(req) # NoError

\* 33.33% three times (99.99%) of 10.00 is refused
C12_Witness ==
    /\ Applied
    /\ req.SplitMethod = SplitMethodPercentage
    /\ req.TotalAmount = 10000
    /\ Len(req.PercentageSplits) = 3
    /\ \A i \in 1..3 : req.PercentageSplits[i].Percentage = 3333
    /\ out.err = "percentage split total must be 100%"

RoundedOwed(r) ==
    [i \in 1..Len(r.ManualSplits) |-> RoundToTwoDecimalPlaces(r.ManualSplits[i].AmountOwed, 1)]

\* C13: manual split.  The strategy succeeds exactly when there are
\* participants and the individually rounded owed amounts sum to
\* round2(total); then every output owed is the rounded input, nothing
\* corrected.  On a mismatch it fails with the error that names both sums, and
\* CreateExpense fails without calling the repository.
C13_ManualSplit ==
    (Applied /\ req.SplitMethod = SplitMethodManual) =>
        LET n == Len(req.ManualSplits)
            sum == SumSeq(RoundedOwed(req))
            matches == sum = RoundToTwoDecimalPlaces(req.TotalAmount, 1)
        IN  /\ out.err = NoError <=> (n > 0 /\ matches)
            /\ out.err = NoError =>
                  /\ Len(out.splits) = n
                  /\ \A i \in 1..n : out.splits[i].AmountOwed = RoundedOwed(req)[i]
            /\ (n > 0 /\ ~matches) =>
                  /\ out.err = "manual split amounts (%.2f) must sum up to total amount (%.2f)"
                  /\ out.args = <<sum, req.TotalAmount>>
                  /\ out.splits = <<>>
                  /\ Resolves(req) => PrepareExpense(req).err = out.err
                  /\ CreateExpenseError(req) # NoError

\* owed 60.00 and 30.00 against a total of 100.00: refused, naming 90.00 and
\* 100.00
C13_Witness ==
    /\ Applied
    /\ req.SplitMethod = SplitMethodManual
    /\ req.TotalAmount = 100000
    /\ Len(req.ManualSplits) = 2
    /\ req.ManualSplits[1].AmountOwed = 60000
    /\ req.ManualSplits[2].AmountOwed = 30000
    /\ out.err # NoError
    /\ out.args = <<90000, 100000>>

\* C20: each of the three strategies refuses an empty participant list with
\* an error and returns no splits, whatever the total.
C20_EmptyParticipants ==
    (Applied /\ Len(MethodSplits(req)) = 0) =>
        /\ out.splits = <<>>
        /\ out.err =
             (CASE req.SplitMethod = SplitMethodEqual ->
                       "equal split requires participants"
                [] req.SplitMethod = SplitMethodPercentage ->
                       "percentage split requires percentages"
                [] req.SplitMethod = SplitMethodManual ->
                       "manual split requires manual amounts")

\* a manual split of 0.00 among nobody is refused
C20_Witness ==
    /\ Applied
    /\ req.SplitMethod = SplitMethodManual
    /\ req.ManualSplits = <<>>
    /\ req.TotalAmount = 0
    /\ out.err = "manual split requires manual amounts"

(***************************************************************************)
(* Table balances                                                          *)
(***************************************************************************)
\* a value stored in a DECIMAL(10,2) column is rounded to two decimals
DecimalColumn(x) == RoundToTwoDecimalPlaces(x, 1)

SameKey(r1, r2) == r1.User1ID = r2.User1ID /\ r1.User2ID = r2.User2ID

\* balanceRepository.UpdateBalance on the rows the statement sees: the pair is
\* put in ascending order (the amount negated on a swap), then
\* INSERT ... ON DUPLICATE KEY UPDATE balance = balance + amount
CanonicalUpdateMutNoSwap(user1ID, user2ID, amount) ==
    [User1ID |-> user1ID, User2ID |-> user2ID, Balance |-> amount]

CanonicalUpdateMutNoNegate(user1ID, user2ID, amount) ==
    IF user1ID > user2ID
    THEN [User1ID |-> user2ID, User2ID |-> user1ID, Balance |-> amount]
    ELSE [User1ID |-> user1ID, User2ID |-> user2ID, Balance |-> amount]

CanonicalUpdateMutNegateBoth(user1ID, user2ID, amount) ==
    IF user1ID > user2ID
    THEN [User1ID |-> user2ID, User2ID |-> user1ID, Balance |-> -amount]
    ELSE [User1ID |-> user1ID, User2ID |-> user2ID, Balance |-> -amount]

CanonicalUpdate(user1ID, user2ID, amount) ==
    IF user1ID > user2ID
    THEN [User1ID |-> user2ID, User2ID |-> user1ID, Balance |-> -amount]
    ELSE [User1ID |-> user1ID, User2ID |-> user2ID, Balance |-> amount]

UpdateBalanceMutNoNegateOnUpdate(rows, user1ID, user2ID, amount) ==
    LET new == CanonicalUpdate(user1ID, user2ID, amount)
    IN  IF \E r \in rows : SameKey(r, new)
        THEN { IF SameKey(r, new)
               THEN [r EXCEPT !.Balance = DecimalColumn(@ + amount)]
               ELSE r : r \in rows }
        ELSE rows \cup {[new EXCEPT !.Balance = DecimalColumn(@)]}

UpdateBalanceMutOverwrite(rows, user1ID, user2ID, amount) ==
    LET new == CanonicalUpdate(user1ID, user2ID, amount)
    IN  { r \in rows : ~SameKey(r, new) } \cup {[new EXCEPT !.Balance = DecimalColumn(@)]}

UpdateBalanceMutInsertOnly(rows, user1ID, user2ID, amount) ==
    LET new == CanonicalUpdate(user1ID, user2ID, amount)
    IN  IF \E r \in rows : SameKey(r, new)
        THEN rows
        ELSE rows \cup {[new EXCEPT !.Balance = DecimalColumn(@)]}

UpdateBalance(rows, user1ID, user2ID, amount) ==
    LET new == CanonicalUpdate(user1ID, user2ID, amount)
    IN  IF \E r \in rows : SameKey(r, new)
        THEN { IF SameKey(r, new)
               THEN [r EXCEPT !.Balance = DecimalColumn(@ + new.Balance)]
               ELSE r : r \in rows }
        ELSE rows \cup {[new EXCEPT !.Balance = DecimalColumn(@)]}


(***************************************************************************)
(* The database as the repository uses it.  A transaction's writes are     *)
(* kept apart (wExpenses, wSplits, wBalances) until it commits; a write to *)
(* a balances row locks the row until the transaction ends; a statement    *)
(* inside a transaction sees the latest committed rows under its own       *)
(* writes; a read outside a transaction sees committed rows only.          *)
(***************************************************************************)
MaxExpenses == 3

\* committed rows with the transaction's own versions laid over them
OverlayMutReplace(committed, written) == written

Overlay(committed, written) ==
    { r \in committed : ~\E w \in written : SameKey(r, w) } \cup written

\* the row lock taken by INSERT ... ON DUPLICATE KEY UPDATE: another
\* transaction wrote the row and has not ended yet
RowLockedMutNoLock(p, key) == FALSE

RowLocked(p, key) ==
    \E q \in Callers \ {p} : \E w \in tx[q].wBalances : SameKey(w, key)

\* what a rollback leaves of the committed rows
RollbackMutKeepsWrites(committed, written) == committed \cup written

Rollback(committed, written) == committed

InFlight(p) == tx[p].pc # "idle"

\* a CreateExpenseRequest as the handler decodes it: the user ids are not
\* filled in yet
MakeRequest(method, total, creatorEmail, splits) ==
    [TotalAmount |-> total, CreatedByEmail |-> creatorEmail, CreatedByID |-> 0,
     SplitMethod |-> method,
     EqualSplits      |-> IF method = SplitMethodEqual THEN splits ELSE <<>>,
     PercentageSplits |-> IF method = SplitMethodPercentage THEN splits ELSE <<>>,
     ManualSplits     |-> IF method = SplitMethodManual THEN splits ELSE <<>>]

E(email, paid) == [UserEmail |-> email, UserID |-> 0, AmountPaid |-> paid]

P(email, pct, paid) ==
    [UserEmail |-> email, UserID |-> 0, Percentage |-> pct, AmountPaid |-> paid]

M(email, owed, paid) ==
    [UserEmail |-> email, UserID |-> 0, AmountOwed |-> owed, AmountPaid |-> paid]

\* the requests the callers submit (amounts in mills)
Requests ==
    { \* a records 0.125 paid by a, all of it owed by b (listed first)
      MakeRequest(SplitMethodPercentage, 125, "a", <<P("b", 10000, 0), P("a", 0, 125)>>),
      \* b pays 0.10, split equally with a and c: b absorbs the remainder
      MakeRequest(SplitMethodEqual, 100, "b", <<E("b", 100), E("a", 0), E("c", 0)>>),
      \* c pays 0.03, b owes 0.02 of it, a takes part with nothing owed or paid
      MakeRequest(SplitMethodManual, 30, "c", <<M("c", 10, 30), M("b", 20, 0), M("a", 0, 0)>>),
      \* a records an expense b paid: 0.03, of which c owes 0.02 and a nothing
      MakeRequest(SplitMethodManual, 30, "a", <<M("a", 0, 0), M("b", 10, 30), M("c", 20, 0)>>),
      \* b listed twice (the handler refuses it)
      MakeRequest(SplitMethodManual, 30, "a", <<M("a", 0, 30), M("b", 10, 0), M("b", 20, 0)>>),
      \* paid amounts do not add up to the total (the service refuses it)
      MakeRequest(SplitMethodEqual, 100, "a", <<E("a", 50), E("b", 0)>>),
      MakeRequest(SplitMethodPercentage, 100, "a", <<P("a", 5000, 50), P("b", 5000, 0)>>),
      MakeRequest(SplitMethodManual, 30, "a", <<M("a", 10, 0), M("b", 20, 0)>>),
      \* d is not a user (the service refuses it)
      MakeRequest(SplitMethodEqual, 100, "a", <<E("a", 100), E("d", 0)>>),
      \* owed amounts that add up to the total, but not once each is rounded
      \* (the strategy refuses it)
      MakeRequest(SplitMethodManual, 30, "a", <<M("a", 15, 30), M("b", 15, 0)>>),
      \* a split method that does not exist
      MakeRequest("weekly", 100, "a", <<>>),
      \* a records an expense of b and c without taking part (the handler
      \* refuses it)
      MakeRequest(SplitMethodEqual, 100, "a", <<E("b", 100), E("c", 0)>>) }

\* what CreateExpenseHandler answers each of the requests with, and what
\* expenseService.CreateExpense prepares for it
Answer == [r \in Requests |-> CreateExpenseError(r)]

Prepared == [r \in Requests |-> PrepareExpense(r)]

\* CreateExpenseHandler: validation fails in the handler or in the service, the
\* repository is not called
CreateExpenseRejected(p, r) ==
    /\ tx[p].pc = "idle"
    /\ Answer[r] # NoError
    /\ result' = [err |-> Answer[r], ID |-> 0]
    /\ response' = None
    /\ UNCHANGED <<req, out, expenses, expense_splits, balances, nextId, tx>>

\* the request passes; expenseService.CreateExpense calls
\* expenseRepository.CreateExpense: db.Begin
Begin(p, r) ==
    /\ tx[p].pc = "idle"
    /\ nextId + Cardinality({q \in Callers : tx[q].pc = "insertExpense"}) <= MaxExpenses
    /\ Answer[r] = NoError
    /\ tx' = [tx EXCEPT ![p] =
                [IdleTx EXCEPT !.pc = "insertExpense",
                               !.expense = Prepared[r].expense,
                               !.splits = Prepared[r].splits,
                               !.balanceUpdates = Prepared[r].balanceUpdates]]
    /\ result' = None
    /\ response' = None
    /\ UNCHANGED <<req, out, expenses, expense_splits, balances, nextId>>

\* INSERT INTO expenses; LastInsertId
InsertExpense(p) ==
    /\ tx[p].pc = "insertExpense"
    /\ LET e == [tx[p].expense EXCEPT !.ID = nextId]
       IN  tx' = [tx EXCEPT ![p].expense = e,
                            ![p].wExpenses = {[e EXCEPT !.TotalAmount = DecimalColumn(@)]},
                            ![p].pc = "insertSplits",
                            ![p].i = 1]
    /\ nextId' = nextId + 1
    /\ response' = None
    /\ result' = None
    /\ UNCHANGED <<req, out, expenses, expense_splits, balances>>

\* one turn of the loop INSERT INTO expense_splits
InsertSplit(p) ==
    /\ tx[p].pc = "insertSplits"
    /\ LET t == tx[p]
           row == [ExpenseID  |-> t.expense.ID,
                   Seq        |-> t.i,
                   UserID     |-> t.splits[t.i].UserID,
                   AmountPaid |-> DecimalColumn(t.splits[t.i].AmountPaid),
                   AmountOwed |-> DecimalColumn(t.splits[t.i].AmountOwed)]
           last == t.i = Len(t.splits)
       IN  tx' = [tx EXCEPT ![p].wSplits = @ \cup {row},
                            ![p].i = IF last THEN 1 ELSE t.i + 1,
                            ![p].pc = IF ~last THEN "insertSplits"
                                      ELSE IF t.balanceUpdates = <<>> THEN "commit"
                                      ELSE "updateBalances"]
    /\ response' = None
    /\ result' = None
    /\ UNCHANGED <<req, out, expenses, expense_splits, balances, nextId>>

\* one turn of the loop over balanceUpdates: balanceRepo.UpdateBalance(tx, ...)
UpdateBalanceStep(p) ==
    /\ tx[p].pc = "updateBalances"
    /\ LET t == tx[p]
           u == t.balanceUpdates[t.i]
           key == CanonicalUpdate(u.User1ID, u.User2ID, u.Amount)
           seen == Overlay(balances, t.wBalances)
           after == UpdateBalance(seen, u.User1ID, u.User2ID, u.Amount)
           last == t.i = Len(t.balanceUpdates)
       IN  /\ ~RowLocked(p, key)
           /\ tx' = [tx EXCEPT ![p].wBalances =
                                   { w \in @ : w \in after } \cup (after \ seen),
                                ![p].i = IF last THEN 0 ELSE t.i + 1,
                                ![p].pc = IF last THEN "commit" ELSE "updateBalances"]
    /\ response' = None
    /\ result' = None
    /\ UNCHANGED <<req, out, expenses, expense_splits, balances, nextId>>

\* tx.Commit succeeds: the writes become the committed rows, the locks go
Commit(p) ==
    /\ tx[p].pc = "commit"
    /\ expenses' = expenses \cup tx[p].wExpenses
    /\ expense_splits' = expense_splits \cup tx[p].wSplits
    /\ balances' = Overlay(balances, tx[p].wBalances)
    /\ result' = [err |-> NoError, ID |-> tx[p].expense.ID]
    /\ tx' = [tx EXCEPT ![p] = IdleTx]
    /\ response' = None
    /\ UNCHANGED <<req, out, nextId>>

\* any statement of the transaction (or Begin, or Commit) returns an error:
\* the deferred tx.Rollback runs and the caller gets the error
Fail(p) ==
    /\ InFlight(p)
    /\ expenses' = Rollback(expenses, tx[p].wExpenses)
    /\ expense_splits' = Rollback(expense_splits, tx[p].wSplits)
    /\ balances' = Overlay(balances, Rollback({}, tx[p].wBalances))
    /\ result' = [err |-> "failed to create expense in service", ID |-> 0]
    /\ tx' = [tx EXCEPT ![p] = IdleTx]
    /\ response' = None
    /\ UNCHANGED <<req, out, nextId>>


(***************************************************************************)
(* Properties of the ledger writer                                         *)
(***************************************************************************)
RECURSIVE SumAmt(_)
SumAmt(S) ==
    IF S = {} THEN 0
    ELSE LET x == CHOOSE y \in S : TRUE IN x.amt + SumAmt(S \ {x})

AllIdle == \A p \in Callers : ~InFlight(p)

\* the call of p returns in this step
Returns(p) == InFlight(p) /\ tx'[p].pc = "idle"

\* the deltas of the transaction of p that fall on the pair {u1, u2}, seen from
\* u1 < u2: a delta handed over as (u2, u1) counts with the opposite sign
TxDeltas(p, u1, u2) ==
    { [i |-> i,
       amt |-> IF tx[p].balanceUpdates[i].User1ID = u1
               THEN tx[p].balanceUpdates[i].Amount
               ELSE -tx[p].balanceUpdates[i].Amount] :
      i \in { j \in 1..Len(tx[p].balanceUpdates) :
              {tx[p].balanceUpdates[j].User1ID, tx[p].balanceUpdates[j].User2ID} = {u1, u2} } }

\* the stored balance of the pair in a set of rows, 0 when there is no row
BalanceOf(rows, u1, u2) ==
    SumAmt({ [k |-> b, amt |-> b.Balance] :
             b \in { r \in rows : r.User1ID = u1 /\ r.User2ID = u2 } })

\* C2: all-or-nothing write.  When a call of the repository's CreateExpense
\* returns an error, whatever step failed, the committed expenses,
\* expense_splits and balances are what they were; when it returns without
\* error, the expense row, every one of its split rows and every one of its
\* balance updates are committed in that same step.
C2_AllOrNothing ==
    [][\A p \in Callers : Returns(p) =>
          IF result'.err # NoError
          THEN /\ expenses' = expenses
               /\ expense_splits' = expense_splits
               /\ balances' = balances
          ELSE /\ expenses' \ expenses =
                     { [tx[p].expense EXCEPT !.TotalAmount = DecimalColumn(@)] }
               /\ result'.ID = tx[p].expense.ID
               /\ Cardinality(expense_splits' \ expense_splits) = Len(tx[p].splits)
               /\ \A i \in 1..Len(tx[p].splits) :
                     \E s \in expense_splits' \ expense_splits :
                        /\ s.ExpenseID = tx[p].expense.ID
                        /\ s.Seq = i
                        /\ s.UserID = tx[p].splits[i].UserID
                        /\ s.AmountOwed = tx[p].splits[i].AmountOwed
                        /\ s.AmountPaid = tx[p].splits[i].AmountPaid
               /\ \A i \in 1..Len(tx[p].balanceUpdates) :
                     \E w \in tx[p].wBalances :
                        /\ {w.User1ID, w.User2ID} = {tx[p].balanceUpdates[i].User1ID,
                                                     tx[p].balanceUpdates[i].User2ID}
                        /\ w \in balances'
    ]_vars

\* a call failed after its expense row was inserted, and nothing is committed
C2_Witness ==
    /\ AllIdle
    /\ result # None
    /\ result.err = "failed to create expense in service"
    /\ nextId = 2
    /\ expenses = {} /\ expense_splits = {} /\ balances = {}

\* the balance deltas the committed ledger holds for the pair u1 < u2: one for
\* each split row of a participant other than the creator whose owed and paid
\* amounts differ, negated when the creator is the one with the larger id
LedgerDeltas(u1, u2) ==
    { [expense |-> e.ID, seq |-> s.Seq,
       amt |-> IF e.CreatedBy = u1 THEN s.AmountOwed - s.AmountPaid
               ELSE s.AmountPaid - s.AmountOwed] :
      <<e, s>> \in { es \in expenses \X expense_splits :
                     /\ es[2].ExpenseID = es[1].ID
                     /\ es[2].UserID # es[1].CreatedBy
                     /\ es[2].AmountOwed # es[2].AmountPaid
                     /\ {es[1].CreatedBy, es[2].UserID} = {u1, u2} } }

\* C3: the balances table is recomputable from the ledger.  In every committed
\* state the row of each canonical pair holds the sum of the deltas the
\* committed expenses carry for the pair, and a pair without a delta has no row.
C3_CacheRecomputable ==
    \A u1, u2 \in UserIDs : u1 < u2 =>
        LET rows == { b \in balances : b.User1ID = u1 /\ b.User2ID = u2 }
            deltas == LedgerDeltas(u1, u2)
        IN  IF deltas = {}
            THEN rows = {}
            ELSE rows = { [User1ID |-> u1, User2ID |-> u2, Balance |-> SumAmt(deltas)] }

\* the row of a and b holds deltas of two expenses, one created by each
C3_Witness ==
    /\ \E d1, d2 \in LedgerDeltas(1, 2) : d1.expense # d2.expense /\ d1.amt > 0 /\ d2.amt < 0
    /\ \E b \in balances : b.User1ID = 1 /\ b.User2ID = 2 /\ b.Balance # 0
    /\ \E e \in expenses : e.ID \notin { d.expense : d \in LedgerDeltas(1, 2) }

\* C6: canonical pairs.  Every balances row, committed or written by a
\* transaction in flight, has user1_id < user2_id, and no two rows are about
\* the same two users, in whichever order the ids reached UpdateBalance.
C6_CanonicalPair ==
    \A rows \in {balances} \cup { Overlay(balances, tx[p].wBalances) : p \in Callers } :
        /\ \A b \in rows : b.User1ID < b.User2ID
        /\ \A b1, b2 \in rows :
              {b1.User1ID, b1.User2ID} = {b2.User1ID, b2.User2ID} => b1 = b2

\* c (id 3) created an expense in which b (id 2) owes 0.02: UpdateBalance got
\* (3, 2, 0.02) and the committed row is (2, 3, -0.02)
C6_Witness ==
    /\ [User1ID |-> 2, User2ID |-> 3, Balance |-> -20] \in balances
    /\ \E e \in expenses : e.CreatedBy = 3

(***************************************************************************)
(* Reads (outside any transaction)                                         *)
(***************************************************************************)
\* balanceRepository.GetBalancesByUserID
GetBalancesByUserIDMutDirty(userID) ==
    LET dirty == balances \cup UNION { tx[p].wBalances : p \in Callers }
    IN  { b \in dirty : b.User1ID = userID \/ b.User2ID = userID }

GetBalancesByUserID(userID) ==
    { b \in balances : b.User1ID = userID \/ b.User2ID = userID }

\* expenseService.GetOutstandingBalancesForUser (for a known user)
UserBalanceViewMutNoFlip(userID, b) ==
    IF b.User1ID = userID
    THEN [WithUserEmail |-> EmailOf(b.User2ID),
          Amount |-> RoundToTwoDecimalPlaces(b.Balance, 1)]
    ELSE [WithUserEmail |-> EmailOf(b.User1ID),
          Amount |-> RoundToTwoDecimalPlaces(b.Balance, 1)]

UserBalanceView(userID, b) ==
    IF b.User1ID = userID
    THEN [WithUserEmail |-> EmailOf(b.User2ID),
          Amount |-> RoundToTwoDecimalPlaces(b.Balance, 1)]
    ELSE [WithUserEmail |-> EmailOf(b.User1ID),
          Amount |-> RoundToTwoDecimalPlaces(-b.Balance, 1)]

GetOutstandingBalancesForUser(userID) ==
    { UserBalanceView(userID, b) : b \in GetBalancesByUserID(userID) }

\* expenseRepository.GetExpensesByUserID: expenses JOIN expense_splits
GetExpensesByUserID(userID) ==
    { [Date        |-> e.ID,
       TotalAmount |-> e.TotalAmount,
       Share       |-> s.AmountPaid - s.AmountOwed] :
      <<e, s>> \in { es \in expenses \X expense_splits :
                     es[1].ID = es[2].ExpenseID /\ es[2].UserID = userID } }

ReadBalances(userID) ==
    /\ response' = [kind |-> "balances", user |-> userID,
                    rows |-> GetOutstandingBalancesForUser(userID)]
    /\ result' = None
    /\ UNCHANGED <<req, out, expenses, expense_splits, balances, nextId, tx>>

ReadExpenses(userID) ==
    /\ response' = [kind |-> "expenses", user |-> userID,
                    rows |-> GetExpensesByUserID(userID)]
    /\ result' = None
    /\ UNCHANGED <<req, out, expenses, expense_splits, balances, nextId, tx>>

(***************************************************************************)
(* Properties of the balances the ledger writer leaves and the reads show  *)
(***************************************************************************)
TakesPart(e, u) == \E s \in expense_splits : s.ExpenseID = e.ID /\ s.UserID = u

\* amount_owed - amount_paid of user u in expense e
Net(e, u) ==
    SumAmt({ [k |-> s.Seq, amt |-> s.AmountOwed - s.AmountPaid] :
             s \in { r \in expense_splits : r.ExpenseID = e.ID /\ r.UserID = u } })

C5_SignConvention ==
    \A e \in expenses : \A s \in expense_splits :
        ( /\ Cardinality(expenses) = 1
          /\ s.ExpenseID = e.ID
          /\ s.UserID # e.CreatedBy
          /\ s.AmountOwed - s.AmountPaid > 0 ) =>
            /\ \A b \in balances :
                  {b.User1ID, b.User2ID} = {s.UserID, e.CreatedBy} =>
                      (b.Balance > 0 <=> b.User1ID = s.UserID)
            /\ [WithUserEmail |-> EmailOf(e.CreatedBy),
                Amount |-> s.AmountOwed - s.AmountPaid]
                   \in GetOutstandingBalancesForUser(s.UserID)
            /\ [WithUserEmail |-> EmailOf(s.UserID),
                Amount |-> s.AmountPaid - s.AmountOwed]
                   \in GetOutstandingBalancesForUser(e.CreatedBy)

\* p commits in this step
Commits(p) == tx[p].pc = "commit" /\ tx'[p].pc = "idle" /\ result'.err = NoError

\* C7: no lost update.  Whatever the other transaction did between the
\* statements of this one, a commit leaves each pair at the balance committed
\* just before it plus the canonicalised deltas of the committing transaction,
\* so that two transactions with deltas for one pair leave the prior balance
\* plus both; a pair the committing transaction has no delta for keeps its row.
C7_NoLostUpdate ==
    [][\A p \in Callers : Commits(p) =>
          \A u1, u2 \in UserIDs : u1 < u2 =>
              /\ BalanceOf(balances', u1, u2) =
                     BalanceOf(balances, u1, u2) + SumAmt(TxDeltas(p, u1, u2))
              /\ TxDeltas(p, u1, u2) = {} =>
                     { b \in balances' : b.User1ID = u1 /\ b.User2ID = u2 }
                       = { b \in balances : b.User1ID = u1 /\ b.User2ID = u2 }
    ]_vars

\* two transactions in flight with a delta for a and b, whose row already holds
\* a committed balance: one has written the row and is about to commit, the
\* other waits for the row
C7_Witness ==
    \E p, q \in Callers :
        /\ p # q
        /\ tx[p].pc = "commit"
        /\ \E w \in tx[p].wBalances : w.User1ID = 1 /\ w.User2ID = 2
        /\ tx[q].pc = "updateBalances"
        /\ {tx[q].balanceUpdates[tx[q].i].User1ID,
            tx[q].balanceUpdates[tx[q].i].User2ID} = {1, 2}
        /\ BalanceOf(balances, 1, 2) # 0

\* the balances rows the committed ledger gives user u, as the balances read
\* presents them
LedgerView(u) ==
    { [WithUserEmail |-> EmailOf(v),
       Amount |-> IF u < v THEN SumAmt(LedgerDeltas(u, v)) ELSE -SumAmt(LedgerDeltas(v, u))] :
      v \in { x \in UserIDs \ {u} :
              IF u < x THEN LedgerDeltas(u, x) # {} ELSE LedgerDeltas(x, u) # {} } }

\* C8: reader isolation.  A balances read shows the balances of the committed
\* expenses and nothing of a transaction in flight; a history read shows no
\* expense of a transaction in flight; and no step of a transaction other than
\* its commit changes what either read returns.
C8_ReaderIsolation ==
    /\ [](response # None =>
            /\ response.kind = "balances" => response.rows = LedgerView(response.user)
            /\ response.kind = "expenses" =>
                  \A row \in response.rows : \A p \in Callers :
                      InFlight(p) => tx[p].expense.ID # row.Date)
    /\ [][(\A p \in Callers : ~Commits(p)) =>
            \A u \in UserIDs :
                /\ GetOutstandingBalancesForUser(u)' = GetOutstandingBalancesForUser(u)
                /\ GetExpensesByUserID(u)' = GetExpensesByUserID(u)
         ]_vars

\* a balances read while a transaction holds an uncommitted new value of a row
\* of the reader: the read shows the committed value
C8_Witness ==
    /\ response # None
    /\ response.kind = "balances"
    /\ \E p \in Callers : \E w \in tx[p].wBalances : \E b \in balances :
          /\ SameKey(w, b)
          /\ w.Balance # b.Balance
          /\ b.User1ID = response.user
          /\ [WithUserEmail |-> EmailOf(b.User2ID), Amount |-> b.Balance] \in response.rows

(***************************************************************************)
(* Spec: concurrent callers of CreateExpense and readers                   *)
(***************************************************************************)
Init ==
    /\ req = None
    /\ out = None
    /\ LedgerIdle

Next ==
    \/ \E p \in Callers, r \in Requests : CreateExpenseRejected(p, r) \/ Begin(p, r)
    \/ \E p \in Callers :
          InsertExpense(p) \/ InsertSplit(p) \/ UpdateBalanceStep(p) \/ Commit(p) \/ Fail(p)

Spec == Init /\ [][Next]_vars

\* ReadSpec: the same callers, with readers beside them
MaxReadExpenses == 2

ReadNext ==
    \/ /\ Next
       /\ nextId' + Cardinality({q \in Callers : tx'[q].pc = "insertExpense"})
             <= MaxReadExpenses + 1
    \/ \E u \in UserIDs : ReadBalances(u) \/ ReadExpenses(u)

ReadSpec == Init /\ [][ReadNext]_vars

(***************************************************************************)
(* Properties of what the service hands to the ledger writer               *)
(***************************************************************************)
\* the error of the paid-sum validation of expenseService.CreateExpense
PaidMismatch == "total amount paid across all splits does not match total expense amount"

PaidOfExpense(e) ==
    SumAmt({ [k |-> s.Seq, amt |-> s.AmountPaid] :
             s \in { r \in expense_splits : r.ExpenseID = e.ID } })

\* the request passes every check before the paid-sum validation, and the
\* rounded paid amounts do not sum to round2(total)
PaidSumDiffers(r) ==
    /\ validateCreateExpenseRequest(r) = NoError
    /\ Resolves(r)
    /\ calculateExpenseSplits(resolveUserEmailsToIDs(r).req).err = NoError
    /\ RoundToTwoDecimalPlaces(
           SumPaid(calculateExpenseSplits(resolveUserEmailsToIDs(r).req).splits), 1)
         # RoundToTwoDecimalPlaces(r.TotalAmount, 1)

PaidMismatchRefused ==
    \A r \in Requests : PaidSumDiffers(r) => CreateExpenseError(r) = PaidMismatch

\* C14: paid-sum validation.  Under every split method a request whose rounded
\* paid amounts do not sum to round2(total) is answered with the paid-amount
\* mismatch error; that answer leaves expenses, expense_splits and balances as
\* they were and starts no transaction; no transaction carries, and no
\* committed expense has, a paid sum other than its total.
C14_PaidSumValidation ==
    /\ []PaidMismatchRefused
    /\ [](\A p \in Callers : InFlight(p) =>
             RoundToTwoDecimalPlaces(SumPaid(tx[p].splits), 1)
               = RoundToTwoDecimalPlaces(tx[p].expense.TotalAmount, 1))
    /\ [](\A e \in expenses : PaidOfExpense(e) = e.TotalAmount)
    /\ [][(result' # None /\ result'.err = PaidMismatch) =>
             /\ expenses' = expenses
             /\ expense_splits' = expense_splits
             /\ balances' = balances
             /\ tx' = tx
         ]_vars

\* a request with a paid-sum mismatch was refused after an expense had been
\* committed: the committed expense is all there is
C14_Witness ==
    /\ result # None
    /\ result.err = PaidMismatch
    /\ Cardinality(expenses) = 1
    /\ AllIdle
    /\ \E r \in Requests : r.SplitMethod = SplitMethodPercentage /\ PaidSumDiffers(r)
    /\ \E r \in Requests : r.SplitMethod = SplitMethodManual /\ PaidSumDiffers(r)
    /\ \E r \in Requests : r.SplitMethod = SplitMethodEqual /\ PaidSumDiffers(r)

\* the positions of the splits that carry a delta: the user is not the
\* creator, and owed and paid differ
DeltaPositions(createdBy, splits) ==
    { i \in 1..Len(splits) :
        splits[i].UserID # createdBy /\ splits[i].AmountOwed # splits[i].AmountPaid }

\* C15: creator-centric deltas.  The balance updates of an expense are, in the
\* order of the splits, one {creator, participant, owed - paid} for each split
\* of a participant other than the creator with owed # paid, and nothing else:
\* none for the creator's own split, none between two participants who are
\* not the creator; the rows the transaction writes all have the creator in
\* their pair.
C15_CreatorCentricDeltas ==
    \A p \in Callers : InFlight(p) =>
        LET t == tx[p]
            creator == t.expense.CreatedBy
            pos == DeltaPositions(creator, t.splits)
        IN  /\ Len(t.balanceUpdates) = Cardinality(pos)
            /\ \A k \in 1..Len(t.balanceUpdates) :
                  \E i \in pos :
                     /\ Cardinality({ j \in pos : j <= i }) = k
                     /\ t.balanceUpdates[k] =
                           [User1ID |-> creator,
                            User2ID |-> t.splits[i].UserID,
                            Amount  |-> t.splits[i].AmountOwed - t.splits[i].AmountPaid]
            /\ \A w \in t.wBalances : creator \in {w.User1ID, w.User2ID}

\* c created an expense in which c's own net is not zero, a's is zero and b's
\* is not: the transaction is about to commit with the one delta (c, b)
C15_Witness ==
    \E p \in Callers :
        /\ tx[p].pc = "commit"
        /\ tx[p].expense.CreatedBy = 3
        /\ Len(tx[p].splits) = 3
        /\ \E i \in 1..3 : /\ tx[p].splits[i].UserID = 3
                           /\ tx[p].splits[i].AmountOwed # tx[p].splits[i].AmountPaid
        /\ \E i \in 1..3 : /\ tx[p].splits[i].UserID = 1
                           /\ tx[p].splits[i].AmountOwed = tx[p].splits[i].AmountPaid
        /\ Len(tx[p].balanceUpdates) = 1
        /\ tx[p].balanceUpdates[1].User2ID = 2

(***************************************************************************)
(* UpdateSpec: balanceRepository.UpdateBalance applied call after call to  *)
(* the balances table.  req is the last call, out the call before it and   *)
(* the table that call found (before), with the table the last call       *)
(* found (found).  The amounts are whole cents, as every amount            *)
(* calculateBalanceUpdates hands over is.                                  *)
(***************************************************************************)
MaxBalanceUnits == 2

\* 10.00, the amount of the calls, in mills
UpdateUnit == RoundToTwoDecimalPlaces(10000, 1)

UpdateAmounts == {-UpdateUnit, UpdateUnit}

Call(user1ID, user2ID, amount) ==
    [user1ID |-> user1ID, user2ID |-> user2ID, amount |-> amount]

UpdateInit ==
    /\ req = None
    /\ out = [prev |-> None, before |-> {}, found |-> {}]
    /\ LedgerIdle

ApplyUpdateBalance(user1ID, user2ID, amount) ==
    /\ user1ID # user2ID
    /\ \A r \in UpdateBalance(balances, user1ID, user2ID, amount) :
          Abs(r.Balance) <= MaxBalanceUnits * UpdateUnit
    /\ balances' = UpdateBalance(balances, user1ID, user2ID, amount)
    /\ req' = Call(user1ID, user2ID, amount)
    /\ out' = [prev |-> req, before |-> out.found, found |-> balances]
    /\ UNCHANGED <<expenses, expense_splits, nextId, tx, result, response>>

UpdateNext ==
    \E user1ID, user2ID \in UserIDs, amount \in UpdateAmounts :
        ApplyUpdateBalance(user1ID, user2ID, amount)

UpdateSpec == UpdateInit /\ [][UpdateNext]_vars

\* C17, as the testable properties state it: UpdateBalance(5,3,+10) and then
\* UpdateBalance(3,5,+10) leave the table as UpdateBalance(3,5,+20) once would
\* (3 and 5 stand for any two users u1 < u2, 10 for the amount of the calls).
C17_CanonicalizationAsStated ==
    \A u1, u2 \in UserIDs : \A x \in UpdateAmounts :
        ( /\ u1 < u2
          /\ out.prev = Call(u2, u1, x)
          /\ req = Call(u1, u2, x) ) =>
            balances = UpdateBalance(out.before, u1, u2, 2 * x)

\* C17, amended: UpdateBalance(5,3,-10) and then UpdateBalance(3,5,+10) leave
\* the table as UpdateBalance(3,5,+20) once would; UpdateBalance(5,3,+10) and
\* then UpdateBalance(3,5,+10) cancel, leaving the balance the pair had (0 in
\* a new row when it had none).
C17_Canonicalization ==
    \A u1, u2 \in UserIDs : \A x \in UpdateAmounts :
        u1 < u2 =>
            /\ (out.prev = Call(u2, u1, -x) /\ req = Call(u1, u2, x)) =>
                  balances = UpdateBalance(out.before, u1, u2, 2 * x)
            /\ (out.prev = Call(u2, u1, x) /\ req = Call(u1, u2, x)) =>
                  /\ BalanceOf(balances, u1, u2) = BalanceOf(out.before, u1, u2)
                  /\ \E b \in balances : b.User1ID = u1 /\ b.User2ID = u2
                  /\ { b \in balances : ~(b.User1ID = u1 /\ b.User2ID = u2) }
                       = { b \in out.before : ~(b.User1ID = u1 /\ b.User2ID = u2) }

\* UpdateBalance(3,1,-10) and then UpdateBalance(1,3,+10) on a table in which
\* the pair had a balance of -10: the balance is +10 now
C17_Witness ==
    /\ out.prev = Call(3, 1, -UpdateUnit)
    /\ req = Call(1, 3, UpdateUnit)
    /\ [User1ID |-> 1, User2ID |-> 3, Balance |-> -UpdateUnit] \in out.before
    /\ [User1ID |-> 1, User2ID |-> 3, Balance |-> UpdateUnit] \in balances
    /\ \E b \in balances : b.User1ID = 2

\* C18: upsert with swap and negate.  A call UpdateBalance(a,b,x), a # b,
\* leaves the table as UpdateBalance(b,a,-x) would: the row (min,max) is
\* inserted with balance x (-x when a > b) when the pair had none, x (-x when
\* a > b) is added to its balance otherwise, and the rows of the other pairs
\* stay as they are.
C18_UpsertSwapNegate ==
    [][ LET a == req'.user1ID
            b == req'.user2ID
            x == req'.amount
            lo == IF a < b THEN a ELSE b
            hi == IF a < b THEN b ELSE a
            delta == IF a > b THEN -x ELSE x
            had == { r \in balances : r.User1ID = lo /\ r.User2ID = hi }
        IN  /\ a # b
            /\ out'.found = balances
            /\ balances' = UpdateBalance(balances, b, a, -x)
            /\ { r \in balances' : ~(r.User1ID = lo /\ r.User2ID = hi) }
                 = balances \ had
            /\ Cardinality(had) <= 1
            /\ { r \in balances' : r.User1ID = lo /\ r.User2ID = hi }
                 = IF had = {}
                   THEN { [User1ID |-> lo, User2ID |-> hi, Balance |-> delta] }
                   ELSE { [r EXCEPT !.Balance = @ + delta] : r \in had }
    ]_vars

\* UpdateBalance(3,1,+10) found the pair at -10 and left it at -20, beside the
\* row of another pair
C18_Witness ==
    /\ req = Call(3, 1, UpdateUnit)
    /\ out.prev # None
    /\ [User1ID |-> 1, User2ID |-> 3, Balance |-> -2 * UpdateUnit] \in balances
    /\ \E b \in balances : b.User1ID = 2 /\ b.Balance # 0

(***************************************************************************)
(* Properties of the two views of one balances row (ReadSpec)              *)
(***************************************************************************)
\* what GetOutstandingBalancesForUser(userID) reports against the user with
\* the id otherID
ViewsAgainst(userID, otherID) ==
    { v \in GetOutstandingBalancesForUser(userID) : v.WithUserEmail = EmailOf(otherID) }

\* C16: read sign symmetry.  For every stored row (u1,u2,b) the balances of u1
\* report u2 with amount b and the balances of u2 report u1 with amount -b, so
\* the two views add up to zero; a balances read answers with these views, and
\* a read leaves every stored row as it is.
C16_ReadSignSymmetry ==
    /\ [](\A b \in balances :
            /\ ViewsAgainst(b.User1ID, b.User2ID) =
                  { [WithUserEmail |-> EmailOf(b.User2ID), Amount |-> b.Balance] }
            /\ ViewsAgainst(b.User2ID, b.User1ID) =
                  { [WithUserEmail |-> EmailOf(b.User1ID), Amount |-> -b.Balance] }
            /\ \A v1 \in ViewsAgainst(b.User1ID, b.User2ID) :
               \A v2 \in ViewsAgainst(b.User2ID, b.User1ID) :
                   v1.Amount + v2.Amount = 0)
    /\ []((response # None /\ response.kind = "balances") =>
            /\ \A b \in balances :
                  /\ b.User1ID = response.user =>
                        [WithUserEmail |-> EmailOf(b.User2ID), Amount |-> b.Balance]
                            \in response.rows
                  /\ b.User2ID = response.user =>
                        [WithUserEmail |-> EmailOf(b.User1ID), Amount |-> -b.Balance]
                            \in response.rows
            /\ Cardinality(response.rows) =
                  Cardinality({ b \in balances : response.user \in {b.User1ID, b.User2ID} }))
    /\ [][response' # None => balances' = balances]_vars

\* user c (id 3) reads their balances while the row (2,3) holds a non-zero
\* balance: b is reported with the sign flipped
C16_Witness ==
    /\ response # None
    /\ response.kind = "balances"
    /\ response.user = 3
    /\ \E b \in balances :
          /\ b.User1ID = 2
          /\ b.User2ID = 3
          /\ b.Balance # 0
          /\ [WithUserEmail |-> "b", Amount |-> -b.Balance] \in response.rows
          /\ [WithUserEmail |-> "c", Amount |-> b.Balance] \in GetOutstandingBalancesForUser(2)

(***************************************************************************)
(* Properties of a request submitted twice (Spec)                          *)
(***************************************************************************)
\* the split rows of the expense with this id, without the id
RowsOf(splits, id) ==
    { [Seq |-> s.Seq, UserID |-> s.UserID,
       AmountPaid |-> s.AmountPaid, AmountOwed |-> s.AmountOwed] :
      s \in { x \in splits : x.ExpenseID = id } }

\* two expense rows that differ in their id at most, with the same split rows:
\* what one request leaves each time it is committed
SameSubmission(e1, rows1, e2, rows2) ==
    /\ [e1 EXCEPT !.ID = 0] = [e2 EXCEPT !.ID = 0]
    /\ rows1 = rows2

\* the delta the committed expense with this id gave the pair u1 < u2
DeltaOfExpense(id, u1, u2) ==
    SumAmt({ d \in LedgerDeltas(u1, u2) : d.expense = id })

\* C19: createExpense is not idempotent.  When the transaction of a request
\* commits while an expense the same request left before is committed, the
\* commit adds a second expense row with an id of its own and the full set of
\* split rows under that id, keeps the first expense and its rows, and changes
\* every balance by the delta of the first submission once more; a ledger of
\* the two submissions alone holds twice the delta of one for every pair.
C19_NotIdempotent ==
    /\ [][\A p \in Callers : \A e \in expenses :
            ( /\ Commits(p)
              /\ \E w \in tx[p].wExpenses :
                    SameSubmission(e, RowsOf(expense_splits, e.ID),
                                   w, RowsOf(tx[p].wSplits, w.ID)) ) =>
                \E e2 \in expenses' \ expenses :
                    /\ \A e1 \in expenses : e1.ID # e2.ID
                    /\ expenses' = expenses \cup {e2}
                    /\ RowsOf(expense_splits', e2.ID) = RowsOf(expense_splits, e.ID)
                    /\ Cardinality(RowsOf(expense_splits', e2.ID)) = Len(tx[p].splits)
                    /\ RowsOf(expense_splits', e.ID) = RowsOf(expense_splits, e.ID)
                    /\ \A u1, u2 \in UserIDs : u1 < u2 =>
                          BalanceOf(balances', u1, u2) =
                              BalanceOf(balances, u1, u2) + DeltaOfExpense(e.ID, u1, u2)
         ]_vars
    /\ [](\A e1, e2 \in expenses :
            ( /\ e1.ID # e2.ID
              /\ expenses = {e1, e2}
              /\ SameSubmission(e1, RowsOf(expense_splits, e1.ID),
                                e2, RowsOf(expense_splits, e2.ID)) ) =>
                \A u1, u2 \in UserIDs : u1 < u2 =>
                    BalanceOf(balances, u1, u2) = 2 * DeltaOfExpense(e1.ID, u1, u2))

\* the same request committed twice and nothing else: two expenses of creator
\* c with the same three split rows, and the pair (2,3) at twice -0.02
C19_Witness ==
    /\ \E e1, e2 \in expenses :
          /\ e1.ID # e2.ID
          /\ expenses = {e1, e2}
          /\ e1.CreatedBy = 3
          /\ SameSubmission(e1, RowsOf(expense_splits, e1.ID),
                            e2, RowsOf(expense_splits, e2.ID))
          /\ Cardinality(RowsOf(expense_splits, e2.ID)) = 3
          /\ DeltaOfExpense(e1.ID, 2, 3) = -20
    /\ [User1ID |-> 2, User2ID |-> 3, Balance |-> -40] \in balances
    /\ AllIdle

(***************************************************************************)
(* Properties of the calls the service refuses (Spec)                      *)
(***************************************************************************)
\* the request with the ids expenseService.resolveUserEmailsToIDs filled in
Resolved(r) == resolveUserEmailsToIDs(r).req

KnownMethod(r) ==
    r.SplitMethod \in {SplitMethodEqual, SplitMethodPercentage, SplitMethodManual}

\* the errors expenseService.CreateExpense returns for the requests when an
\* email does not resolve, the method is unknown or the strategy fails
ValidationErrors ==
    { resolveUserEmailsToIDs(r).err : r \in { x \in Requests : ~Resolves(x) } }
    \cup { calculateExpenseSplits(Resolved(r)).err :
           r \in { x \in Requests :
                   Resolves(x) /\ calculateExpenseSplits(Resolved(x)).err # NoError } }

\* what expenseService.CreateExpense returns for each of the requests it is to
\* refuse
ServiceRefuses ==
    \A r \in Requests :
        /\ ~Resolves(r) =>
              /\ resolveUserEmailsToIDs(r).err # NoError
              /\ PrepareExpense(r) = Rejected(resolveUserEmailsToIDs(r).err)
        /\ (Resolves(r) /\ ~KnownMethod(r)) =>
              PrepareExpense(r) = Rejected("invalid split method")
        /\ (Resolves(r) /\ calculateExpenseSplits(Resolved(r)).err # NoError) =>
              PrepareExpense(r) = Rejected(calculateExpenseSplits(Resolved(r)).err)
        /\ PrepareExpense(r).err # NoError =>
              /\ PrepareExpense(r).expense = None
              /\ CreateExpenseError(r) # NoError

\* C21: validation failures leave all state unchanged.  When an email of the
\* request does not resolve, the split method is none of equal, percentage and
\* manual, or the strategy returns an error, CreateExpense returns that error
\* and no expense; the step that answers a caller with such an error begins no
\* transaction and leaves expenses, expense_splits and balances as they were.
C21_ValidationFailures ==
    /\ [](ServiceRefuses /\ (result # None /\ result.err # NoError => result.ID = 0))
    /\ [][(result' # None /\ result'.err \in ValidationErrors) =>
            /\ result'.ID = 0
            /\ tx' = tx
            /\ nextId' = nextId
            /\ expenses' = expenses
            /\ expense_splits' = expense_splits
            /\ balances' = balances
         ]_vars

\* a caller is answered that the users could not be fetched while the tables
\* hold a committed expense and the other caller's transaction is in flight
C21_Witness ==
    /\ result # None
    /\ result.err = "failed to fetch users for expense"
    /\ result.ID = 0
    /\ balances # {}
    /\ \E p \in Callers : InFlight(p) /\ tx[p].wSplits # {}

(***************************************************************************)
(* Properties of the rows over time (Spec)                                 *)
(***************************************************************************)
\* C22: append-only ledger.  No step modifies or removes a committed expenses
\* or expense_splits row (the two sets only grow), and no step removes the
\* balances row of a pair.
C22_AppendOnly ==
    [][ /\ expenses \subseteq expenses'
        /\ expense_splits \subseteq expense_splits'
        /\ \A b \in balances : \E b2 \in balances' : SameKey(b, b2)
    ]_vars

\* the expenses with the ids 1 and 3 are committed with their split rows and
\* a balance between them: the transaction that took the id 2 was rolled back
C22_Witness ==
    /\ { e.ID : e \in expenses } = {1, 3}
    /\ \A e \in expenses : \E s \in expense_splits : s.ExpenseID = e.ID
    /\ balances # {}
    /\ AllIdle

\* the rows of the pair {u, v} in a set of balances rows
PairRows(rows, u, v) ==
    { b \in rows : {b.User1ID, b.User2ID} = {u, v} }

SplitsOfExpense(e) == { s \in expense_splits : s.ExpenseID = e.ID }

SumPaidRows(e) ==
    SumAmt({ [k |-> s.Seq, amt |-> s.AmountPaid] : s \in SplitsOfExpense(e) })

SumOwedRows(e) ==
    SumAmt({ [k |-> s.Seq, amt |-> s.AmountOwed] : s \in SplitsOfExpense(e) })

\* C24: ledger row invariant.  For every committed expense the amount_paid of
\* its split rows add up to its stored total_amount, and so do the amount_owed
\* (two decimals each).
C24_LedgerRowInvariant ==
    \A e \in expenses :
        /\ RoundToTwoDecimalPlaces(SumPaidRows(e), 1) = e.TotalAmount
        /\ RoundToTwoDecimalPlaces(SumOwedRows(e), 1) = e.TotalAmount

(***************************************************************************)
(* Properties of the handler's validation (Spec)                           *)
(***************************************************************************)
ParticipantEmails(r) ==
    { MethodSplits(r)[i].UserEmail : i \in 1..Len(MethodSplits(r)) }

DuplicateParticipant(r) == Cardinality(ParticipantEmails(r)) # Len(MethodSplits(r))

\* the requests with an email twice or without their creator among the
\* participants
Malformed == { r \in Requests :
               DuplicateParticipant(r) \/ r.CreatedByEmail \notin ParticipantEmails(r) }

HandlerRefuses ==
    \A r \in Malformed :
        /\ validateCreateExpenseRequest(r) # NoError
        /\ CreateExpenseError(r) = validateCreateExpenseRequest(r)

HandlerErrors == { validateCreateExpenseRequest(r) : r \in Malformed }

\* C25: request validation at the handler.  A request in which an email
\* appears twice among the participants, or whose created_by is not among
\* them, is refused by validateCreateExpenseRequest; the step that answers it
\* calls nothing further; and every expense the service hands to the
\* repository, in flight or committed, has pairwise distinct participants
\* that include its creator.
C25_HandlerValidation ==
    /\ []HandlerRefuses
    /\ [](\A p \in Callers : InFlight(p) =>
            /\ \A i, j \in 1..Len(tx[p].splits) :
                  tx[p].splits[i].UserID = tx[p].splits[j].UserID => i = j
            /\ \E i \in 1..Len(tx[p].splits) :
                  tx[p].splits[i].UserID = tx[p].expense.CreatedBy)
    /\ [](\A e \in expenses :
            /\ \A s1, s2 \in SplitsOfExpense(e) : s1.UserID = s2.UserID => s1 = s2
            /\ \E s \in SplitsOfExpense(e) : s.UserID = e.CreatedBy)
    /\ [][(result' # None /\ result'.err \in HandlerErrors) =>
            /\ tx' = tx
            /\ nextId' = nextId
            /\ expenses' = expenses
            /\ expense_splits' = expense_splits
            /\ balances' = balances
         ]_vars

\* a request whose creator is not among the participants has been refused
\* while the tables hold a committed expense with three participants
C25_Witness ==
    /\ result # None
    /\ result.err = "created_by user must be included in the split participants"
    /\ \E e \in expenses : Cardinality(SplitsOfExpense(e)) = 3
    /\ AllIdle

(***************************************************************************)
(* Properties of a user's overall balance (Spec)                           *)
(***************************************************************************)
\* the sum of the amounts GetOutstandingBalancesForUser reports to the user
OverallBalance(userID) ==
    SumAmt({ [k |-> v.WithUserEmail, amt |-> v.Amount] :
             v \in GetOutstandingBalancesForUser(userID) })

\* what the committed ledger says the user paid beyond what they owe
LedgerNet(userID) ==
    SumAmt({ [k |-> <<s.ExpenseID, s.Seq>>, amt |-> s.AmountPaid - s.AmountOwed] :
             s \in { x \in expense_splits : x.UserID = userID } })

\* C26: per-user net conservation.  In every committed state the amounts
\* GetOutstandingBalancesForUser(u) reports add up to the sum over the
\* committed expenses of u's amount_paid - amount_owed, for every user u, and
\* the overall balances of all users add up to zero.
C26_NetConservation ==
    /\ \A u \in UserIDs : OverallBalance(u) = LedgerNet(u)
    /\ SumAmt({ [k |-> u, amt |-> OverallBalance(u)] : u \in UserIDs }) = 0

(***************************************************************************)
(* Properties of the sign of the shares (SplitSpec)                        *)
(***************************************************************************)
\* C27: equal split never yields a negative obligation.  For every total > 0
\* and every n >= 1 participants, every amount_owed the equal strategy returns,
\* the first participant's included, is >= 0.
C27_EqualSplitNonNegative ==
    (Succeeded /\ req.SplitMethod = SplitMethodEqual /\ req.TotalAmount > 0) =>
        \A i \in 1..Len(out.splits) : out.splits[i].AmountOwed >= 0

\* C28: percentage split never yields a negative obligation.  For every
\* total > 0 and every list of percentages that lie in [0,100] and sum to 100,
\* every amount_owed returned, the first participant's after the residual
\* adjustment included, is >= 0 and <= round2(total).
C28_PercentageSplitNonNegative ==
    ( /\ Succeeded
      /\ req.SplitMethod = SplitMethodPercentage
      /\ req.TotalAmount > 0
      /\ \A i \in 1..Len(req.PercentageSplits) :
            /\ req.PercentageSplits[i].Percentage >= 0
            /\ req.PercentageSplits[i].Percentage <= 10000 ) =>
        \A i \in 1..Len(out.splits) :
            /\ out.splits[i].AmountOwed >= 0
            /\ out.splits[i].AmountOwed <= RoundToTwoDecimalPlaces(req.TotalAmount, 1)

(***************************************************************************)
(* SettleSpec: the package-level CalculateBalanceUpdates applied to the    *)
(* splits of one expense.  req is the expense with its splits, out the     *)
(* updates returned, in the order the map iteration produced them.         *)
(***************************************************************************)
MaxSettleParticipants == 3

MaxSettleCents == 2

SettleAmounts == { 10 * c : c \in 0..MaxSettleCents }

\* HighestPositiveBalanceStrategy.Calculate, first loop: the map userID ->
\* net balance (the last split of a user wins) ...
userBalances(splits) ==
    [u \in { splits[i].UserID : i \in 1..Len(splits) } |->
        LET last == CHOOSE i \in 1..Len(splits) :
                        /\ splits[i].UserID = u
                        /\ \A j \in 1..Len(splits) : splits[j].UserID = u => j <= i
        IN  splits[last].AmountPaid - splits[last].AmountOwed]

\* ... and the user with the highest positive balance, the first of them in
\* the order of the splits (-1 when nobody has a positive balance)
RECURSIVE highestBalanceUser(_, _)
highestBalanceUser(splits, highest) ==
    IF splits = <<>> THEN highest
    ELSE LET balance == Head(splits).AmountPaid - Head(splits).AmountOwed
         IN  highestBalanceUser(Tail(splits),
                 IF balance > highest.amount
                 THEN [userID |-> Head(splits).UserID, amount |-> balance]
                 ELSE highest)

\* HighestPositiveBalanceStrategy.Calculate: the updates, as a set (the loop
\* over the map appends them in an order of the runtime's choosing)
HighestPositiveBalanceStrategy(expense, splits) ==
    LET balances_ == userBalances(splits)
        highest == highestBalanceUser(splits, [userID |-> -1, amount |-> 0])
    IN  IF highest.userID = -1
        THEN {}
        ELSE { [User1ID |-> highest.userID, User2ID |-> u, Amount |-> -balances_[u]] :
               u \in { v \in DOMAIN balances_ : v # highest.userID /\ balances_[v] < 0 } }

\* SimpleBalanceCalculationStrategy.Calculate (the code of
\* expenseService.calculateBalanceUpdates)
SimpleBalanceCalculationStrategy(expense, splits) ==
    LET updates == calculateBalanceUpdates(expense.CreatedBy, splits)
    IN  { updates[i] : i \in 1..Len(updates) }

getSettlementStrategy == "HighestPositiveBalanceStrategy"

CalculateBalanceUpdates(expense, splits) ==
    IF getSettlementStrategy = "HighestPositiveBalanceStrategy"
    THEN HighestPositiveBalanceStrategy(expense, splits)
    ELSE SimpleBalanceCalculationStrategy(expense, splits)

\* the orders in which a set of updates can come out of the map iteration
Orderings(S) ==
    { f \in [1..Cardinality(S) -> S] : \A i, j \in 1..Cardinality(S) : f[i] = f[j] => i = j }

SettleInit ==
    /\ \E n \in 1..MaxSettleParticipants, k \in 1..2 :
       \E paid, owed \in [1..n -> SettleAmounts] :
          req = [expense |-> [ID |-> 0, TotalAmount |-> SumSeq(paid),
                              CreatedBy |-> PatternUser(k, n, 1)],
                 splits  |-> [i \in 1..n |-> [UserID     |-> PatternUser(k, n, i),
                                              AmountPaid |-> paid[i],
                                              AmountOwed |-> owed[i]]]]
    /\ out = None
    /\ LedgerIdle

Settle ==
    /\ out = None
    /\ \E updates \in Orderings(CalculateBalanceUpdates(req.expense, req.splits)) :
          out' = [updates |-> updates]
    /\ UNCHANGED <<req, ledgerVars>>

SettleNext == Settle

SettleSpec == SettleInit /\ [][SettleNext]_vars

\* what the updates give the user (as User1ID) less what they take from the
\* user (as User2ID)
Receives(updates, u) ==
    SumAmt({ [k |-> i, amt |-> IF updates[i].User1ID = u THEN updates[i].Amount
                               ELSE -updates[i].Amount] :
             i \in { j \in 1..Len(updates) : u \in {updates[j].User1ID, updates[j].User2ID} } })

\* C29: settlement dispatch conserves each user's net.  For every expense
\* whose splits have distinct users and paid amounts that add up to the owed
\* amounts, the updates CalculateBalanceUpdates returns give every participant
\* u, as receiver less as payer, u's amount_paid - amount_owed.
C29_SettlementConservesNet ==
    ( /\ out # None
      /\ \A i, j \in 1..Len(req.splits) :
            req.splits[i].UserID = req.splits[j].UserID => i = j
      /\ SumPaid(req.splits) = SumOwed(req.splits) ) =>
        \A i \in 1..Len(req.splits) :
            Receives(out.updates, req.splits[i].UserID)
                = req.splits[i].AmountPaid - req.splits[i].AmountOwed

(***************************************************************************)
(* Properties of the order of the updates (Spec)                           *)
(***************************************************************************)
\* the balances table after the updates, applied one after the other
RECURSIVE ApplyUpdates(_, _)
ApplyUpdates(rows, updates) ==
    IF updates = <<>> THEN rows
    ELSE ApplyUpdates(UpdateBalance(rows, Head(updates).User1ID, Head(updates).User2ID,
                                    Head(updates).Amount),
                      Tail(updates))

\* the updates of a committed expense, from its split rows in their order
UpdatesOfExpense(e) ==
    calculateBalanceUpdates(e.CreatedBy,
        [i \in 1..Cardinality(SplitsOfExpense(e)) |->
            CHOOSE s \in SplitsOfExpense(e) : s.Seq = i])

\* the balances table after the expenses of the sequence, from the given rows
RECURSIVE Replay(_, _)
Replay(rows, order) ==
    IF order = <<>> THEN rows
    ELSE Replay(ApplyUpdates(rows, UpdatesOfExpense(Head(order))), Tail(order))

Permuted(seq, f) == [i \in 1..Len(seq) |-> seq[f[i]]]

\* C30: order independence.  The committed balances (pairs and values) are
\* what the committed expenses give in whichever order they are applied, and
\* the balances a transaction leaves do not depend on the order in which its
\* own updates are applied.
C30_OrderIndependence ==
    /\ \A order \in Orderings(expenses) : Replay({}, order) = balances
    /\ \A p \in Callers : InFlight(p) =>
          \A f \in Orderings(1..Len(tx[p].balanceUpdates)) :
              ApplyUpdates(balances, Permuted(tx[p].balanceUpdates, f))
                  = ApplyUpdates(balances, tx[p].balanceUpdates)

\* the expenses with the ids 1 and 2 are committed, each with an update for
\* the pair (2,3), one created by b and one by c, and a transaction with two
\* updates is in flight
C30_Witness ==
    /\ \E e1, e2 \in expenses :
          /\ e1.ID = 1
          /\ e2.ID = 2
          /\ \E u1 \in { UpdatesOfExpense(e1)[i] : i \in 1..Len(UpdatesOfExpense(e1)) } :
             \E u2 \in { UpdatesOfExpense(e2)[i] : i \in 1..Len(UpdatesOfExpense(e2)) } :
                /\ {u1.User1ID, u1.User2ID} = {2, 3}
                /\ {u2.User1ID, u2.User2ID} = {2, 3}
                /\ u1.User1ID # u2.User1ID
    /\ PairRows(balances, 2, 3) # {}
    /\ \E p \in Callers : InFlight(p) /\ Len(tx[p].balanceUpdates) = 2

====
